---------------------------- MODULE Spec2Model ----------------------------
(***************************************************************************)
(* Shell Tools MCP server (src/src/shell_tools_mcp_server/server.py).      *)
(*                                                                         *)
(* The five tools run_shell_command, file_edit, file_multi_edit, file_read *)
(* and file_replace are modelled as calls that advance step by step over   *)
(* one regular file (its bytes are `disk`) and one spawned process tree.   *)
(* Text is a sequence of characters over Chars; "CR" and "LF" stand for    *)
(* '\r' and '\n'.  The platform is POSIX (the source uses os.setsid), so   *)
(* text-mode reads translate "\r\n" and "\r" to "\n" and text-mode writes  *)
(* leave every character as it is.                                         *)
(***************************************************************************)
EXTENDS Integers, Sequences, FiniteSets, TLC

\* ------------------------------------------------------------------ bounds

MaxLen == 3      \* longest file content / captured output, in characters
MaxOld == 2      \* longest old_string of file_edit
MaxNew == 1      \* longest new_string of file_edit
MaxEdits == 2    \* longest edits list of file_multi_edit
MaxOff == 2      \* largest |offset| and |limit| of file_read
MaxKids == 1     \* most descendants the shell child starts

Chars == {"a", "CR", "LF"}
Whitespace == {"CR", "LF"}

Strs(n) == UNION {[1..k -> Chars] : k \in 0..n}

Min(a, b) == IF a < b THEN a ELSE b
Max(a, b) == IF a > b THEN a ELSE b

\* ------------------------------------------------------- text primitives

\* s[i..] as a sequence
Drop(s, i) == SubSeq(s, i, Len(s))

\* old occurs in s starting at index i
MatchAt(s, old, i) ==
    /\ i >= 1
    /\ i + Len(old) - 1 <= Len(s)
    /\ SubSeq(s, i, i + Len(old) - 1) = old

\* old occurs somewhere in s
Occurs(s, old) == \E i \in 1..Len(s) : MatchAt(s, old, i)

\* Text-mode decoding of open(path, 'r') (newline=None, universal newlines):
\* "\r\n" and a lone "\r" both read as "\n".
RECURSIVE Translate(_)
Translate(raw) ==
    IF raw = <<>> THEN <<>>
    ELSE IF raw[1] = "CR"
         THEN IF Len(raw) >= 2 /\ raw[2] = "LF"
              THEN <<"LF">> \o Translate(Drop(raw, 3))
              ELSE <<"LF">> \o Translate(Drop(raw, 2))
         ELSE <<raw[1]>> \o Translate(Drop(raw, 2))

\* Text-mode encoding of open(path, 'w') on POSIX: "\n" is written as
\* os.linesep = "\n", every other character unchanged.
Encode(text) == text

\* str.replace(old, new) for empty old: new is put before every character
\* and at the end; with count 1 only at the front.
RECURSIVE Interleave(_, _)
Interleave(s, new) ==
    IF s = <<>> THEN new
    ELSE new \o <<s[1]>> \o Interleave(Drop(s, 2), new)

\* str.replace for non-empty old, scanning s from index i: the leftmost
\* occurrence at or after i is replaced and, when all, the scan goes on
\* after it (occurrences are non-overlapping, found left to right).
RECURSIVE ReplaceFrom(_, _, _, _, _)
ReplaceFrom(s, old, new, all, i) ==
    IF i > Len(s) THEN <<>>
    ELSE IF MatchAt(s, old, i)
         THEN IF all
              THEN new \o ReplaceFrom(s, old, new, all, i + Len(old))
              ELSE new \o Drop(s, i + Len(old))
         ELSE <<s[i]>> \o ReplaceFrom(s, old, new, all, i + 1)

\* content.replace(old, new) when all, content.replace(old, new, 1) otherwise
PyReplace(s, old, new, all) ==
    IF old = <<>>
    THEN IF all THEN Interleave(s, new) ELSE new \o s
    ELSE ReplaceFrom(s, old, new, all, 1)

\* str.strip(): leading and trailing whitespace removed
RECURSIVE LStrip(_)
LStrip(s) ==
    IF s # <<>> /\ s[1] \in Whitespace THEN LStrip(Drop(s, 2)) ELSE s

RECURSIVE RStrip(_)
RStrip(s) ==
    IF s # <<>> /\ s[Len(s)] \in Whitespace
    THEN RStrip(SubSeq(s, 1, Len(s) - 1)) ELSE s

Strip(s) == LStrip(RStrip(s))

\* file.readlines(): the text cut after every "\n", line ends kept
RECURSIVE SplitFrom(_, _, _)
SplitFrom(s, i, cur) ==
    IF i > Len(s) THEN (IF cur = <<>> THEN <<>> ELSE <<cur>>)
    ELSE IF s[i] = "LF"
         THEN <<cur \o <<"LF">> >> \o SplitFrom(s, i + 1, <<>>)
         ELSE SplitFrom(s, i + 1, cur \o <<s[i]>>)

SplitLines(s) == SplitFrom(s, 1, <<>>)

\* ''.join(lines)
RECURSIVE Join(_)
Join(lines) ==
    IF lines = <<>> THEN <<>> ELSE lines[1] \o Join(Tail(lines))

\* Python's list slicing: a negative index counts from the end, and both
\* ends are clamped to the list.
PyIndex(n, i) == IF i < 0 THEN Max(n + i, 0) ELSE Min(i, n)

\* L[i:]
SliceFrom(L, i) == SubSeq(L, PyIndex(Len(L), i) + 1, Len(L))

\* L[:j]
SliceTo(L, j) == SubSeq(L, 1, PyIndex(Len(L), j))

\* L[i:j]
Slice(L, i, j) == SubSeq(L, PyIndex(Len(L), i) + 1, PyIndex(Len(L), j))


\* --------------------------------------------------- server.py, pure parts

\* A file_edit that ignores replace_all and always passes count 1
EditContentFirstOnly(text, old, new, all) == PyReplace(text, old, new, FALSE)

\* file_edit, lines 71-74: the replacement applied to the text read
EditContent(text, old, new, all) ==
    IF all THEN PyReplace(text, old, new, TRUE)
    ELSE PyReplace(text, old, new, FALSE)

\* file_replace, lines 191-194: the same replacement, reimplemented
ReplaceContent(text, old, new, all) ==
    IF all THEN PyReplace(text, old, new, TRUE)
    ELSE PyReplace(text, old, new, FALSE)

\* A loop that aborts on an entry lacking old_string or new_string
EntryOutcomeStrict(e) == IF e.shape = "ok" THEN "apply" ELSE "raise"

\* file_multi_edit, lines 107-117: what one entry of edits does.
\*   "raise": edit.get fails on an entry that is no mapping, or
\*            content.replace fails on an old/new that is no string;
\*   "skip" : old_string or new_string is None or absent (continue);
\*   "apply": the replacement is made.
EntryOutcome(e) ==
    IF e.shape = "notMapping" THEN "raise"
    ELSE IF e.shape \in {"missingOld", "missingNew"} THEN "skip"
    ELSE IF e.shape = "badType" THEN "raise"
    ELSE "apply"

\* file_multi_edit, lines 114-117: the replacement of one applied entry
EntryContent(text, e) ==
    IF e.all THEN PyReplace(text, e.old, e.new, TRUE)
    ELSE PyReplace(text, e.old, e.new, FALSE)

\* A file_read that cuts to limit lines before it drops offset lines
ReadSliceLimitFirst(lines, offset, limit) ==
    LET l1 == IF limit # {} THEN SliceTo(lines, CHOOSE n \in limit : TRUE)
              ELSE lines
        l2 == IF offset # {} THEN SliceFrom(l1, CHOOSE n \in offset : TRUE)
              ELSE l1
    IN  Join(l2)

\* file_read, lines 154-159: the slice of the lines that is returned;
\* offset and limit are {} for None and {n} for the integer n.
ReadSlice(lines, offset, limit) ==
    LET l1 == IF offset # {} THEN SliceFrom(lines, CHOOSE n \in offset : TRUE)
              ELSE lines
        l2 == IF limit # {} THEN SliceTo(l1, CHOOSE n \in limit : TRUE)
              ELSE l1
    IN  Join(l2)

\* run_shell_command, line 38: the text returned for exit code zero; the
\* pipe is read in text mode (text=True), then str.strip() is applied.
CommandOutput(stdout) == Strip(Translate(stdout))

\* run_shell_command, line 40: the message of a non-zero exit
CommandError(stderr) == Strip(Translate(stderr))

\* A write of `bytes` through a descriptor opened with 'w', whose offset is
\* 0: the bytes replace the front of whatever the file holds by then.
WriteAt0(onDisk, bytes) == bytes \o Drop(onDisk, Len(bytes) + 1)

\* The error kind each tool returns from its `except Exception` branch
FailureKind(op) ==
    CASE op = "file_read" -> "ReadFailed"
      [] op = "file_replace" -> "ReplaceFailed"
      [] OTHER -> "EditFailed"

\* ---------------------------------------------------------------- inputs

Procs == {1, 2}               \* concurrent tool calls the dispatcher may run
Paths == {"f", "missing"}     \* "f" is the regular file, "missing" is none
IsFile(path) == path = "f"    \* os.path.isfile

Entry(shape, old, new, all) ==
    [shape |-> shape, old |-> old, new |-> new, all |-> all]

\* Well-formed entries of an edits list, and the replacement pairs of
\* file_replace and of concurrent calls: deletions and insertions, first
\* and all occurrences, each able to feed the next
GoodEntries ==
    { Entry("ok", <<"a">>, <<>>, TRUE),
      Entry("ok", <<"a">>, <<"CR">>, FALSE),
      Entry("ok", <<"LF">>, <<"CR">>, TRUE),
      Entry("ok", <<"LF">>, <<"a">>, FALSE) }

\* Entries that are no mapping, lack a key, or hold a non-string
BadEntries ==
    { Entry("notMapping", <<>>, <<>>, FALSE),
      Entry("missingOld", <<>>, <<"a">>, FALSE),
      Entry("missingNew", <<"a">>, <<>>, FALSE),
      Entry("badType", <<"a">>, <<>>, FALSE) }

Entries == GoodEntries \cup BadEntries

EditLists(S) == UNION {[1..k -> S] : k \in 0..MaxEdits}

OptInts == {{}} \cup {{n} : n \in (0 - MaxOff)..MaxOff}

NoCall ==
    [op |-> "none", path |-> "f", old |-> <<>>, new |-> <<>>, all |-> FALSE,
     edits |-> <<>>, offset |-> {}, limit |-> {},
     command |-> "", cwdOk |-> TRUE, bg |-> FALSE]

Result(kind, text, command) ==
    [kind |-> kind, text |-> text, command |-> command]

NoResult == Result("none", <<>>, "")

NoExit == [code |-> 0, stdout |-> <<>>, stderr |-> <<>>]

\* ----------------------------------------------------------------- state

VARIABLES
    disk,        \* the bytes of file "f"
    pc,          \* pc[p]: the step call p is at
    call,        \* call[p]: the tool and its arguments
    content,     \* content[p]: the text call p holds in memory
    idx,         \* idx[p]: the entry file_multi_edit's loop is at
    result,      \* result[p]: what call p returned
    orig,        \* orig[p]: the bytes of "f" when call p began (history)
    fault,       \* fault[p]: an I/O step of call p raised (history)
    lastWriter,  \* the call whose file.write ran last, 0 if none (history)
    child,       \* the spawned shell: "none", "running", "exited", "killed"
    kids,        \* descendants of the shell that are still running
    exit         \* exit code and captured streams of the shell

vars == <<disk, pc, call, content, idx, result, orig, fault, lastWriter,
          child, kids, exit>>

fileVars == <<disk, content, idx, lastWriter>>
osVars == <<child, kids, exit>>

Init ==
    /\ disk \in Strs(MaxLen)
    /\ pc = [p \in Procs |-> "idle"]
    /\ call = [p \in Procs |-> NoCall]
    /\ content = [p \in Procs |-> <<>>]
    /\ idx = [p \in Procs |-> 0]
    /\ result = [p \in Procs |-> NoResult]
    /\ orig = [p \in Procs |-> <<>>]
    /\ fault = [p \in Procs |-> FALSE]
    /\ lastWriter = 0
    /\ child = "none"
    /\ kids = 0
    /\ exit = NoExit

\* ------------------------------------------------------------ file tools

\* The dispatcher can hand call p a request.  Calls are made while the
\* file is within the bound on its length.
CanBegin(p) == pc[p] = "idle" /\ Len(disk) <= MaxLen

\* Entry of a file tool with arguments c: the os.path.isfile test
\* (lines 64, 99, 147, 184) returns "File not found" or goes on to the read.
Enter(p, c) ==
    /\ call' = [call EXCEPT ![p] = c]
    /\ orig' = [orig EXCEPT ![p] = disk]
    /\ IF IsFile(c.path)
       THEN /\ pc' = [pc EXCEPT ![p] = "read"]
            /\ result' = [result EXCEPT ![p] = NoResult]
       ELSE /\ pc' = [pc EXCEPT ![p] = "done"]
            /\ result' = [result EXCEPT ![p] = Result("FileNotFound", <<>>, "")]
    /\ UNCHANGED <<fileVars, fault, osVars>>

BeginRead(p) ==
    /\ CanBegin(p)
    /\ \E path \in Paths, offset \in OptInts, limit \in OptInts :
           Enter(p, [NoCall EXCEPT !.op = "file_read", !.path = path,
                                   !.offset = offset, !.limit = limit])

BeginEdit(p) ==
    /\ CanBegin(p)
    /\ \E path \in Paths, old \in Strs(MaxOld), new \in Strs(MaxNew),
          all \in BOOLEAN :
           Enter(p, [NoCall EXCEPT !.op = "file_edit", !.path = path,
                                   !.old = old, !.new = new, !.all = all])

BeginReplace(p) ==
    /\ CanBegin(p)
    /\ \E path \in Paths, e \in GoodEntries :
           Enter(p, [NoCall EXCEPT !.op = "file_replace", !.path = path,
                                   !.old = e.old, !.new = e.new, !.all = e.all])

BeginMultiEdit(p) ==
    /\ CanBegin(p)
    /\ \E path \in Paths, edits \in EditLists(Entries) :
           Enter(p, [NoCall EXCEPT !.op = "file_multi_edit", !.path = path,
                                   !.edits = edits])

\* file_read, lines 151-159
ReadLines(p) ==
    /\ pc[p] = "read"
    /\ call[p].op = "file_read"
    /\ result' = [result EXCEPT ![p] =
          Result("ok", ReadSlice(SplitLines(Translate(disk)),
                                 call[p].offset, call[p].limit), "")]
    /\ pc' = [pc EXCEPT ![p] = "done"]
    /\ UNCHANGED <<fileVars, call, orig, fault, osVars>>

\* file_edit, lines 68-74: read the file, compute new_content
EditRead(p) ==
    /\ pc[p] = "read"
    /\ call[p].op = "file_edit"
    /\ content' = [content EXCEPT ![p] =
          EditContent(Translate(disk), call[p].old, call[p].new, call[p].all)]
    /\ pc' = [pc EXCEPT ![p] = "openw"]
    /\ UNCHANGED <<disk, idx, lastWriter, call, result, orig, fault, osVars>>

\* file_replace, lines 188-194
ReplaceRead(p) ==
    /\ pc[p] = "read"
    /\ call[p].op = "file_replace"
    /\ content' = [content EXCEPT ![p] =
          ReplaceContent(Translate(disk), call[p].old, call[p].new, call[p].all)]
    /\ pc' = [pc EXCEPT ![p] = "openw"]
    /\ UNCHANGED <<disk, idx, lastWriter, call, result, orig, fault, osVars>>

\* file_multi_edit, lines 103-104: read the file once
MultiRead(p) ==
    /\ pc[p] = "read"
    /\ call[p].op = "file_multi_edit"
    /\ content' = [content EXCEPT ![p] = Translate(disk)]
    /\ idx' = [idx EXCEPT ![p] = 1]
    /\ pc' = [pc EXCEPT ![p] =
          IF call[p].edits = <<>> THEN "openw" ELSE "loop"]
    /\ UNCHANGED <<disk, lastWriter, call, result, orig, fault, osVars>>

\* file_multi_edit, lines 106-117 and 123-124: one iteration of the loop
MultiStep(p) ==
    /\ pc[p] = "loop"
    /\ LET e == call[p].edits[idx[p]]
           last == idx[p] = Len(call[p].edits)
           next == IF last THEN "openw" ELSE "loop"
       IN  CASE EntryOutcome(e) = "raise" ->
                  /\ result' = [result EXCEPT ![p] =
                        Result("EditFailed", <<>>, "")]
                  /\ pc' = [pc EXCEPT ![p] = "done"]
                  /\ UNCHANGED content
             [] EntryOutcome(e) = "skip" ->
                  /\ pc' = [pc EXCEPT ![p] = next]
                  /\ UNCHANGED <<content, result>>
             [] OTHER ->
                  /\ content' = [content EXCEPT ![p] =
                        EntryContent(content[p], e)]
                  /\ pc' = [pc EXCEPT ![p] = next]
                  /\ UNCHANGED result
    /\ idx' = [idx EXCEPT ![p] = idx[p] + 1]
    /\ UNCHANGED <<disk, lastWriter, call, orig, fault, osVars>>

\* open(file_path, 'w'), lines 76, 119, 196: the file is truncated
OpenWrite(p) ==
    /\ pc[p] = "openw"
    /\ disk' = <<>>
    /\ pc' = [pc EXCEPT ![p] = "write"]
    /\ UNCHANGED <<content, idx, lastWriter, call, result, orig, fault, osVars>>

\* file.write and the close of the with block, lines 77-79, 120-122,
\* 197-199: the buffered text reaches the file at the descriptor's offset
WriteBack(p) ==
    /\ pc[p] = "write"
    /\ disk' = WriteAt0(disk, Encode(content[p]))
    /\ lastWriter' = p
    /\ result' = [result EXCEPT ![p] = Result("ok", <<>>, "")]
    /\ pc' = [pc EXCEPT ![p] = "done"]
    /\ UNCHANGED <<content, idx, call, orig, fault, osVars>>

\* An open, read or write that raises (permissions, disk full, ...): the
\* `except Exception` branch, lines 80-81, 123-124, 160-161, 200-201
IOFault(p) ==
    /\ pc[p] \in {"read", "openw", "write"}
    /\ fault' = [fault EXCEPT ![p] = TRUE]
    /\ result' = [result EXCEPT ![p] = Result(FailureKind(call[p].op), <<>>, "")]
    /\ pc' = [pc EXCEPT ![p] = "done"]
    /\ UNCHANGED <<fileVars, call, orig, osVars>>

\* ------------------------------------------------------ run_shell_command

Commands == {"sleep 5"}

\* run_shell_command, lines 23-37: the shell is spawned.  A spawn that
\* fails (cwd does not exist) raises FileNotFoundError, which neither
\* except clause (lines 39, 41) catches.  In background mode the PID is
\* returned at once (line 26).
BeginCommand(p) ==
    /\ CanBegin(p)
    /\ child = "none"
    /\ \E command \in Commands, cwdOk \in BOOLEAN, bg \in BOOLEAN :
        /\ call' = [call EXCEPT ![p] =
              [NoCall EXCEPT !.op = "run_shell_command", !.command = command,
                             !.cwdOk = cwdOk, !.bg = bg]]
        /\ IF ~cwdOk
           THEN /\ result' = [result EXCEPT ![p] = Result("raised", <<>>, "")]
                /\ pc' = [pc EXCEPT ![p] = "done"]
                /\ UNCHANGED child
           ELSE /\ child' = "running"
                /\ IF bg
                   THEN /\ result' = [result EXCEPT ![p] = Result("pid", <<>>, "")]
                        /\ pc' = [pc EXCEPT ![p] = "done"]
                   ELSE /\ result' = [result EXCEPT ![p] = NoResult]
                        /\ pc' = [pc EXCEPT ![p] = "wait"]
    /\ orig' = [orig EXCEPT ![p] = disk]
    /\ UNCHANGED <<fileVars, fault, kids, exit>>

\* The shell starts a process of its own (a command in a list, a pipeline,
\* a job put in the background with &)
ChildFork ==
    /\ child = "running"
    /\ kids < MaxKids
    /\ kids' = kids + 1
    /\ UNCHANGED <<fileVars, pc, call, result, orig, fault, child, exit>>

\* A descendant ends by itself
KidExit ==
    /\ kids > 0
    /\ kids' = kids - 1
    /\ UNCHANGED <<fileVars, pc, call, result, orig, fault, child, exit>>

\* The shell ends by itself, with an exit code and what it wrote
ChildExit ==
    /\ child = "running"
    /\ child' = "exited"
    /\ \E code \in {0, 1}, text \in Strs(MaxLen), other \in Strs(1) :
        exit' = IF code = 0
                THEN [code |-> code, stdout |-> text, stderr |-> other]
                ELSE [code |-> code, stdout |-> other, stderr |-> text]
    /\ UNCHANGED <<fileVars, pc, call, result, orig, fault, kids>>

\* subprocess.run returns or raises CalledProcessError (check=True),
\* lines 28-40
CommandCollect(p) ==
    /\ pc[p] = "wait"
    /\ child = "exited"
    /\ result' = [result EXCEPT ![p] =
          IF exit.code = 0
          THEN Result("ok", CommandOutput(exit.stdout), "")
          ELSE Result("CommandFailed", CommandError(exit.stderr), "")]
    /\ pc' = [pc EXCEPT ![p] = "done"]
    /\ UNCHANGED <<fileVars, call, orig, fault, osVars>>

\* The deadline of subprocess.run(timeout=...) expires while the shell, or
\* a descendant holding its pipes, still runs: subprocess.run kills the
\* shell it spawned (Popen.kill, one PID), waits for it and raises
\* TimeoutExpired, lines 28-37 and 41-42.
CommandTimeout(p) ==
    /\ pc[p] = "wait"
    /\ child = "running" \/ kids > 0
    /\ child' = IF child = "running" THEN "killed" ELSE child
    /\ result' = [result EXCEPT ![p] =
          Result("CommandTimeout", <<>>, call[p].command)]
    /\ pc' = [pc EXCEPT ![p] = "done"]
    /\ UNCHANGED <<fileVars, call, orig, fault, kids, exit>>

\* ------------------------------------------------------------- dispatcher

\* The result has been handed to the caller; the call's state is dropped
\* (section 3 of the spec: nothing is retained across calls).
Return(p) ==
    /\ pc[p] = "done"
    /\ pc' = [pc EXCEPT ![p] = "idle"]
    /\ call' = [call EXCEPT ![p] = NoCall]
    /\ content' = [content EXCEPT ![p] = <<>>]
    /\ idx' = [idx EXCEPT ![p] = 0]
    /\ result' = [result EXCEPT ![p] = NoResult]
    /\ orig' = [orig EXCEPT ![p] = <<>>]
    /\ fault' = [fault EXCEPT ![p] = FALSE]
    /\ lastWriter' = 0
    /\ child' = "none"
    /\ kids' = 0
    /\ exit' = NoExit
    /\ UNCHANGED disk

\* One call at a time: every tool, every argument, every I/O outcome
Next ==
    \/ BeginRead(1)
    \/ BeginEdit(1)
    \/ BeginReplace(1)
    \/ BeginMultiEdit(1)
    \/ BeginCommand(1)
    \/ ReadLines(1)
    \/ EditRead(1)
    \/ ReplaceRead(1)
    \/ MultiRead(1)
    \/ MultiStep(1)
    \/ OpenWrite(1)
    \/ WriteBack(1)
    \/ IOFault(1)
    \/ ChildFork
    \/ KidExit
    \/ ChildExit
    \/ CommandCollect(1)
    \/ CommandTimeout(1)
    \/ Return(1)

Spec == Init /\ [][Next]_vars

\* The tools one by one
NextRead == BeginRead(1) \/ ReadLines(1) \/ IOFault(1) \/ Return(1)

SpecRead == Init /\ [][NextRead]_vars

NextEdit ==
    \/ BeginEdit(1)
    \/ EditRead(1)
    \/ OpenWrite(1)
    \/ WriteBack(1)
    \/ IOFault(1)
    \/ Return(1)

SpecEdit == Init /\ [][NextEdit]_vars

NextMultiEdit ==
    \/ BeginMultiEdit(1)
    \/ MultiRead(1)
    \/ MultiStep(1)
    \/ OpenWrite(1)
    \/ WriteBack(1)
    \/ IOFault(1)
    \/ Return(1)

SpecMultiEdit == Init /\ [][NextMultiEdit]_vars

NextCommand ==
    \/ BeginCommand(1)
    \/ ChildFork
    \/ KidExit
    \/ ChildExit
    \/ CommandCollect(1)
    \/ CommandTimeout(1)
    \/ Return(1)

SpecCommand == Init /\ [][NextCommand]_vars

\* Two calls that edit the same file at once, each made once, with no I/O
\* failure: the interleavings of their read, open-for-write and write steps
BeginEditShared(p) ==
    /\ CanBegin(p)
    /\ \E e \in GoodEntries :
           Enter(p, [NoCall EXCEPT !.op = "file_edit", !.old = e.old,
                                   !.new = e.new, !.all = e.all])

SharedEntries ==
    { Entry("ok", <<"a">>, <<>>, TRUE),
      Entry("ok", <<"LF">>, <<"a">>, FALSE),
      Entry("missingOld", <<>>, <<"a">>, FALSE) }

BeginMultiEditShared(p) ==
    /\ CanBegin(p)
    /\ \E edits \in EditLists(SharedEntries) :
           Enter(p, [NoCall EXCEPT !.op = "file_multi_edit", !.edits = edits])

NextShared ==
    \E p \in Procs :
        \/ BeginEditShared(p)
        \/ BeginMultiEditShared(p)
        \/ EditRead(p)
        \/ MultiRead(p)
        \/ MultiStep(p)
        \/ OpenWrite(p)
        \/ WriteBack(p)

SpecShared == Init /\ [][NextShared]_vars

\* ----------------------------------------------------------- properties

Finished(p, op) == pc[p] = "done" /\ call[p].op = op

\* C1: a foreground run_shell_command that returns CommandTimeout names the
\* command and leaves neither the shell nor any of its descendants running.
C1_TimeoutLeavesNoProcess ==
    (/\ Finished(1, "run_shell_command")
     /\ ~call[1].bg
     /\ result[1].kind = "CommandTimeout")
    => (/\ result[1].command = call[1].command
        /\ child # "running"
        /\ kids = 0)

\* C2: every call of every tool ends with a string result, the payload or
\* an error description; no exception escapes to the caller.
C2_NoExceptionEscapes ==
    \A p \in Procs :
        pc[p] = "done" =>
            result[p].kind \in {"ok", "pid", "FileNotFound", "EditFailed",
                                "ReadFailed", "ReplaceFailed", "CommandFailed",
                                "CommandTimeout"}

\* C3: at every step of a file_edit or file_multi_edit call the file holds
\* either its original content or the complete final content.
C3_OriginalOrFinalOnDisk ==
    (pc[1] # "idle" /\ call[1].op \in {"file_edit", "file_multi_edit"})
    => \/ disk = orig[1]
       \/ pc[1] \in {"write", "done"} /\ disk = Encode(content[1])

\* C4: once two concurrent edits of the file have both completed, the file
\* holds exactly the content produced by the call whose write came last
\* (stated for a last write of at least one character).
C4_LastWriterWins ==
    (/\ pc[1] = "done" /\ result[1].kind = "ok"
     /\ pc[2] = "done" /\ result[2].kind = "ok"
     /\ content[lastWriter] # <<>>)
    => disk = Encode(content[lastWriter])

\* What a file_edit call that runs alone and meets no I/O failure leaves in
\* a file holding raw (lines 68-77)
EditedFile(raw, e) ==
    WriteAt0(<<>>, Encode(EditContent(Translate(raw), e.old, e.new, e.all)))

\* The file after successive file_edit calls, one per entry, each on the
\* file the previous one left
RECURSIVE EditChain(_, _)
EditChain(raw, edits) ==
    IF edits = <<>> THEN raw
    ELSE EditChain(EditedFile(raw, Head(edits)), Tail(edits))

\* C5: file_multi_edit with well-formed entries e1..en leaves the file that
\* n successive file_edit calls with e1, ..., en leave.
C5_MultiEditIsEditChain ==
    (/\ Finished(1, "file_multi_edit")
     /\ result[1].kind = "ok"
     /\ call[1].edits # <<>>
     /\ \A i \in 1..Len(call[1].edits) : call[1].edits[i].shape = "ok")
    => disk = EditChain(orig[1], call[1].edits)

\* R is C with exactly the leftmost occurrence of a replaced by b, or C
\* itself when a does not occur
LeftmostReplaced(C, a, b, R) ==
    IF Occurs(C, a)
    THEN \E i \in 1..Len(C) :
            /\ MatchAt(C, a, i)
            /\ \A j \in 1..(i - 1) : ~MatchAt(C, a, j)
            /\ R = SubSeq(C, 1, i - 1) \o b \o Drop(C, i + Len(a))
    ELSE R = C

\* C6: file_edit with replace_all false on an existing file reports success
\* and changes exactly the leftmost occurrence of old_string; the file is
\* bit-identical when old_string does not occur.
C6_EditReplacesLeftmostOnly ==
    (/\ Finished(1, "file_edit")
     /\ IsFile(call[1].path)
     /\ ~call[1].all
     /\ call[1].old # <<>>
     /\ ~fault[1])
    => /\ result[1].kind = "ok"
       /\ LeftmostReplaced(orig[1], call[1].old, call[1].new, disk)

\* A file_edit call with replace_all true, a non-empty old_string that
\* new_string does not contain, on an existing file, that reported success
ReplacedAll ==
    /\ Finished(1, "file_edit")
    /\ result[1].kind = "ok"
    /\ call[1].all
    /\ call[1].old # <<>>
    /\ ~Occurs(call[1].new, call[1].old)

\* C7 as stated: after such a call the file contains no occurrence of
\* old_string.
C7_ReplaceAllLeavesNone == ReplacedAll => ~Occurs(disk, call[1].old)

\* T with the occurrences of a that start at the positions in P replaced
\* by b, from index i on
RECURSIVE Subst(_, _, _, _, _)
Subst(T, P, a, b, i) ==
    IF i > Len(T) THEN <<>>
    ELSE IF i \in P THEN b \o Subst(T, P, a, b, i + Len(a))
         ELSE <<T[i]>> \o Subst(T, P, a, b, i + 1)

Dist(i, j) == IF i < j THEN j - i ELSE i - j

\* C7 amended: the file is the text read with a set of pairwise disjoint
\* occurrences of old_string replaced, and every occurrence of old_string
\* in the text read overlaps a replaced one: none is carried over intact.
C7_ReplaceAllCoversEveryOccurrence ==
    ReplacedAll =>
        LET T == Translate(orig[1])
            a == call[1].old
        IN  \E P \in SUBSET (1..Len(T)) :
                /\ \A i \in P : MatchAt(T, a, i)
                /\ \A i, j \in P : i # j => Dist(i, j) >= Len(a)
                /\ \A j \in 1..Len(T) :
                      MatchAt(T, a, j) => \E i \in P : Dist(i, j) < Len(a)
                /\ disk = Subst(T, P, a, call[1].new, 1)

\* C7 witness: a replace-all that removed an occurrence and left the file
\* with an occurrence of old_string formed across the point of replacement
C7_Witness ==
    /\ ReplacedAll
    /\ Occurs(Translate(orig[1]), call[1].old)
    /\ Occurs(disk, call[1].old)

\* read(F): the result of file_read without offset and limit
ReadAll(raw) == ReadSlice(SplitLines(Translate(raw)), {}, {})

\* A file_read call with both offset and limit on an existing file that met
\* no I/O failure
SlicedRead ==
    /\ Finished(1, "file_read")
    /\ IsFile(call[1].path)
    /\ call[1].offset # {}
    /\ call[1].limit # {}
    /\ ~fault[1]

\* The result is the lines of read(F) sliced by [o : o+l], never an error
IsSliceOfLines ==
    LET L == SplitLines(ReadAll(orig[1]))
        o == CHOOSE n \in call[1].offset : TRUE
        l == CHOOSE n \in call[1].limit : TRUE
    IN  /\ result[1].kind = "ok"
        /\ result[1].text = Join(Slice(L, o, o + l))

\* C8 as stated: for every integer offset and limit file_read returns the
\* slice [offset : offset+limit] of the lines of the whole file.
C8_ReadIsSlice == SlicedRead => IsSliceOfLines

\* C8 amended: the same for every offset >= 0 and limit >= 0.
C8_ReadIsSliceNonNegative ==
    (/\ SlicedRead
     /\ \A n \in call[1].offset \cup call[1].limit : n >= 0)
    => IsSliceOfLines

\* C8 witness: a read of one inner line of a file of three lines or more
C8_Witness ==
    /\ SlicedRead
    /\ Len(SplitLines(ReadAll(orig[1]))) >= 3
    /\ call[1].offset = {1}
    /\ call[1].limit = {1}
    /\ result[1].text = SplitLines(ReadAll(orig[1]))[2]

\* C9: a foreground command that exits with code zero returns its standard
\* output with the trailing whitespace removed and nothing else altered.
C9_OutputIsRStripped ==
    (/\ Finished(1, "run_shell_command")
     /\ ~call[1].bg
     /\ result[1].kind = "ok")
    => result[1].text = RStrip(exit.stdout)

Raises(e) == e.shape \in {"notMapping", "badType"}
Present(e) == e.shape \notin {"missingOld", "missingNew"}

\* The replacements of a list of well-formed entries, made in list order
RECURSIVE ApplyAll(_, _)
ApplyAll(text, edits) ==
    IF edits = <<>> THEN text
    ELSE ApplyAll(PyReplace(text, Head(edits).old, Head(edits).new,
                            Head(edits).all), Tail(edits))

\* C10: when an entry of file_multi_edit raises, the call returns EditFailed
\* and the file is as before the call; an entry whose old or new text is
\* missing is skipped and the remaining entries are applied and written.
C10_MultiEditAllOrNothing ==
    (Finished(1, "file_multi_edit") /\ IsFile(call[1].path)) =>
        LET edits == call[1].edits
            raises == \E i \in 1..Len(edits) : Raises(edits[i])
        IN  /\ raises =>
                /\ result[1].kind = "EditFailed"
                /\ disk = orig[1]
            /\ (~raises /\ ~fault[1]) =>
                /\ result[1].kind = "ok"
                /\ disk = ApplyAll(Translate(orig[1]), SelectSeq(edits, Present))

\* C10 witness: an entry that matches the file, followed by one that
\* raises, and the call has returned EditFailed
C10_Witness ==
    /\ Finished(1, "file_multi_edit")
    /\ Len(call[1].edits) = 2
    /\ call[1].edits[1].shape = "ok"
    /\ Occurs(Translate(orig[1]), call[1].edits[1].old)
    /\ Raises(call[1].edits[2])
    /\ result[1].kind = "EditFailed"

=============================================================================
